---------------------------- MODULE Spec2Model ----------------------------
(***************************************************************************)
(* Delibery analytics dashboard: the session gateway (App, Login, the      *)
(* axios client of services/api) and the metrics pipeline of Dashboard     *)
(* (fetchData, handleSimulateTraffic and the derived views).               *)
(*                                                                         *)
(* A MetricData record is a TLA+ record; a field the server left out is a  *)
(* field missing from the record's DOMAIN.  A MetricsResponse (an object   *)
(* of objects) is the sequence of its values in own-property order, which  *)
(* is what Object.values returns; the opaque keys are not represented.     *)
(***************************************************************************)
EXTENDS Integers, Sequences, FiniteSets

VARIABLES
    localStorage,  \* browser storage: [token, email] under delibery_token, delibery_user_email
    token,         \* App state
    userEmail,     \* App state
    initializing,  \* App state
    loginLoading,  \* Login state: loading
    loginError,    \* Login state: error
    loginPending,  \* a POST /login of the mounted Login is in flight
    dashInst,      \* which Dashboard instance is mounted (0: none)
    metrics,       \* Dashboard state: MetricData[]
    loading,       \* Dashboard state
    simulating,    \* Dashboard state
    lastUpdated,   \* Dashboard state
    stats,         \* Dashboard useMemo: stats
    methodData,    \* Dashboard useMemo: methodData
    latencyData,   \* Dashboard useMemo: latencyData
    recentRows,    \* Dashboard render: the records behind the rows of the requests table
    fetches,       \* GET /metricas requests in flight
    sims,          \* the handleSimulateTraffic calls of this page load, in call order
    mounts,        \* Dashboard instances mounted since the page loaded
    issued,        \* GET /metricas requests issued since the page loaded
    refreshes,     \* Refresh clicks since the page loaded
    data,          \* history: the successful /metricas response the mounted Dashboard handled last
    shownId,       \* history: the request that response answered (0: none)
    newestId       \* history: the latest-issued request the mounted Dashboard got a response to

vars == <<localStorage, token, userEmail, initializing, loginLoading, loginError,
          loginPending, dashInst, metrics, loading, simulating, lastUpdated, stats,
          methodData, latencyData, recentRows, fetches, sims, mounts, issued,
          refreshes, data, shownId, newestId>>

-----------------------------------------------------------------------------
(* Bounds                                                                  *)

MaxLen == 3          \* longest MetricsResponse drawn in AggSpec
MaxRequests == 3     \* GET /metricas requests one page load may lead to: each
                     \* login, Test Traffic click and Refresh click leads to one

-----------------------------------------------------------------------------
(* JavaScript value helpers                                                *)

Has(r, f) == f \in DOMAIN r

\* (r[f] || 0) for a numeric field: undefined and 0 are both falsy
OrZero(r, f) == IF Has(r, f) /\ r[f] # 0 THEN r[f] ELSE 0

RECURSIVE Pow10(_)
Pow10(d) == IF d = 0 THEN 1 ELSE 10 * Pow10(d - 1)

\* Number.prototype.toFixed(d) of the non-negative quotient num/den: the
\* integer n with n / 10^d closest to the value, the larger n on a tie,
\* printed with exactly d fraction digits.  A printed decimal is the record
\* of its integer part, its fraction digits (as a number) and their count,
\* so that "0.0" and "0.00" differ.  The code divides in binary floating
\* point; the quotients of the sequences drawn here are never within a
\* rounding error of a tie, so the exact quotient prints the same digits.
ToFixed(num, den, d) ==
    LET n == (2 * num * Pow10(d) + den) \div (2 * den)
    IN  [whole |-> n \div Pow10(d), frac |-> n % Pow10(d), digits |-> d]

\* a string literal such as '0.00'
Decimal(w, f, d) == [whole |-> w, frac |-> f, digits |-> d]

-----------------------------------------------------------------------------
(* fetchData: Object.values(data).sort((a, b) => (a.timestampMs || 0) -    *)
(*                                              (b.timestampMs || 0))     *)

compareFn_descending(a, b) == OrZero(b, "timestampMs") - OrZero(a, "timestampMs")

compareFn(a, b) == OrZero(a, "timestampMs") - OrZero(b, "timestampMs")

\* Array.prototype.sort is stable: in the result an element comes after the
\* elements that compare less than it and after the elements before it in
\* the array that compare equal to it.  sortedIndex is the 1-based place
\* that gives the element at index i.
sortedIndex(arr, i) ==
    Cardinality({j \in DOMAIN arr :
                    \/ compareFn(arr[j], arr[i]) < 0
                    \/ compareFn(arr[j], arr[i]) = 0 /\ j < i}) + 1

sort(arr) ==
    [p \in DOMAIN arr |-> arr[CHOOSE i \in DOMAIN arr : sortedIndex(arr, i) = p]]

toOrderedSequence(response) == sort(response)

-----------------------------------------------------------------------------
(* Dashboard derived statistics (useMemo stats)                            *)

\* metrics.reduce((acc, curr) => acc + (curr.responseTimeMs || 0), 0)
RECURSIVE ReduceLatency(_, _)
ReduceLatency(acc, s) ==
    IF s = <<>> THEN acc
    ELSE ReduceLatency(acc + OrZero(Head(s), "responseTimeMs"), Tail(s))

IsError_strict(m) == Has(m, "statusCode") /\ m.statusCode > 400

\* m.statusCode >= 400; undefined >= 400 is false
IsError(m) == Has(m, "statusCode") /\ m.statusCode >= 400

\* Math.max(...latencies) of a non-empty array
MathMax(s) == CHOOSE x \in {s[i] : i \in DOMAIN s} : \A i \in DOMAIN s : s[i] <= x

computeStats(m) ==
    IF Len(m) = 0
    THEN [avgLatency |-> Decimal(0, 0, 2), totalRequests |-> 0,
          errorRate |-> Decimal(0, 0, 1), peakLatency |-> Decimal(0, 0, 2)]
    ELSE LET totalRequests == Len(m)
             totalLatency == ReduceLatency(0, m)
             avgLatency == ToFixed(totalLatency, totalRequests, 2)
             errors == Len(SelectSeq(m, IsError))
             errorRate == ToFixed(errors * 100, totalRequests, 1)
             latencies == [i \in DOMAIN m |-> OrZero(m[i], "responseTimeMs")]
             peakLatency == IF Len(latencies) > 0
                            THEN ToFixed(MathMax(latencies), 1, 2)
                            ELSE Decimal(0, 0, 2)
         IN  [avgLatency |-> avgLatency, totalRequests |-> totalRequests,
              errorRate |-> errorRate, peakLatency |-> peakLatency]

-----------------------------------------------------------------------------
(* Dashboard method distribution (useMemo methodData)                      *)

MethodLabel_rawMethod(m) == IF Has(m, "method") THEN m.method ELSE "UNKNOWN"

\* m.method || 'UNKNOWN': undefined and '' are both falsy
MethodLabel(m) == IF Has(m, "method") /\ m.method # "" THEN m.method ELSE "UNKNOWN"

\* counts is an object whose own string keys enumerate in the order they
\* were first assigned; it is kept as the sequence of its entries in that
\* order.  hasOwn: counts[method] is defined (and then at least 1, truthy).
hasOwn(counts, method) == \E i \in DOMAIN counts : counts[i].name = method

\* metrics.forEach(m => { const method = m.method || 'UNKNOWN';
\*                        counts[method] = (counts[method] || 0) + 1 })
\* a key not yet assigned is added with 1; a key already there keeps its
\* place and has its value raised
RECURSIVE ForEachCount(_, _)
ForEachCount(counts, s) ==
    CASE s = <<>> -> counts
      [] s # <<>> /\ ~hasOwn(counts, MethodLabel(Head(s))) ->
            ForEachCount(Append(counts, [name |-> MethodLabel(Head(s)), value |-> 1]),
                         Tail(s))
      [] OTHER ->
            ForEachCount([i \in DOMAIN counts |->
                             IF counts[i].name = MethodLabel(Head(s))
                             THEN [name |-> counts[i].name, value |-> counts[i].value + 1]
                             ELSE counts[i]],
                         Tail(s))

\* Object.entries(counts).map(([name, value]) => ({ name, value }))
methodFrequency(m) == ForEachCount(<<>>, m)

-----------------------------------------------------------------------------
(* Dashboard latency chart (useMemo latencyData)                           *)

LatencyWindow == 30     \* metrics.slice(-30)

\* arr.slice(-k): a copy of the last k elements, of all of them if fewer
sliceLast(arr, k) ==
    SubSeq(arr, (IF Len(arr) > k THEN Len(arr) - k ELSE 0) + 1, Len(arr))

\* parseFloat of a printed decimal: the number it reads, as a fraction
parseFloat(decimal) ==
    [num |-> decimal.whole * Pow10(decimal.digits) + decimal.frac,
     den |-> Pow10(decimal.digits)]

\* new Date(ms).toLocaleTimeString([], {hour, minute, second}): the time of
\* day as hour, minute and second, the zone's offset taken as zero
toLocaleTimeString(ms) ==
    LET second == (ms \div 1000) % 86400
    IN  <<second \div 3600, (second \div 60) % 60, second % 60>>

\* one point of the chart; an absent or zero timestamp gives the time ''
LatencyPoint(m, i) ==
    [name |-> i,
     ms |-> parseFloat(ToFixed(OrZero(m, "responseTimeMs"), 1, 2)),
     time |-> IF OrZero(m, "timestampMs") # 0
              THEN toLocaleTimeString(m.timestampMs) ELSE <<>>]

latencySeries_firstWindow(m) ==
    LET head == SubSeq(m, 1, IF Len(m) > LatencyWindow THEN LatencyWindow ELSE Len(m))
    IN  [i \in DOMAIN head |-> LatencyPoint(head[i], i - 1)]

\* metrics.slice(-30).map((m, i) => ({ name: i, ms: ..., time: ... })), the
\* callback's index i counting from 0
latencySeries(m) ==
    LET tail == sliceLast(m, LatencyWindow)
    IN  [i \in DOMAIN tail |-> LatencyPoint(tail[i], i - 1)]

-----------------------------------------------------------------------------
(* Dashboard recent-requests table                                         *)

RecentWindow == 10      \* metrics.slice(-10)

\* Array.prototype.reverse: the array's elements in the opposite order (the
\* array it is called on is the one reordered)
reverse(arr) == [i \in DOMAIN arr |-> arr[Len(arr) + 1 - i]]

recentLog_reversesState(m) ==
    [rows |-> SubSeq(reverse(m), 1, IF Len(m) > RecentWindow THEN RecentWindow ELSE Len(m)),
     array |-> reverse(m)]

\* metrics.slice(-10).reverse(): the rows that are mapped to <tr>, and the
\* metrics array as the expression leaves it; reverse reorders the copy that
\* slice made, so the array itself keeps its order
recentLog(m) ==
    [rows |-> reverse(sliceLast(m, RecentWindow)),
     array |-> m]

-----------------------------------------------------------------------------
(* Session gateway: services/api, App, Login                               *)

Null == "null"                      \* null, undefined, a missing storage key

Truthy(str) == str # Null /\ str # ""

\* api.interceptors.request: the Authorization header of the outgoing
\* request, <<>> when the interceptor sets none
requestInterceptor(ls) ==
    IF Truthy(ls.token) THEN <<"Bearer", ls.token>> ELSE <<>>

logout_tokenOnly(ls) == [ls EXCEPT !.token = Null]

\* authService.logout: both keys removed
logout(ls) == [token |-> Null, email |-> Null]

\* App's mount effect: the stored session, if both keys hold something
currentSession(ls) ==
    IF Truthy(ls.token) /\ Truthy(ls.email)
    THEN [found |-> TRUE, token |-> ls.token, email |-> ls.email]
    ELSE [found |-> FALSE, token |-> Null, email |-> ""]

loginAccepted_tokenOnly(response) == Truthy(response.token)

\* Login.handleSubmit: if (data.ok && data.token)
loginAccepted(response) == response.ok /\ Truthy(response.token)

AuthFailedMsg == "Falha na autenticacao. Verifique suas credenciais."
ConnectFailedMsg == "Erro ao conectar com o servidor."

\* err.response?.data?.erro || "Erro ao conectar com o servidor."
loginErrorMessage(erro) == IF Truthy(erro) THEN erro ELSE ConnectFailedMsg

-----------------------------------------------------------------------------
(* Dashboard: fetchData and handleSimulateTraffic                          *)

TrafficRequests == 3    \* the simulateGetOrders calls handed to Promise.all

setMetrics_merge(prev, metricsArray) == prev \o metricsArray

\* React state setter: the value replaces the previous one
setMetrics(prev, metricsArray) == metricsArray

fetchCatch_clears(prev) == <<>>

\* fetchData's catch block logs and leaves the metrics state alone
fetchCatch(prev) == prev

\* metrics.length === 0 && <tr>No metrics found ...</tr>
emptyStateRow(m) == Len(m) = 0

PromiseAll_allSettled(reqs) ==
    IF reqs.pending = 0 THEN "fulfilled" ELSE "pending"

PromiseAll_any(reqs) ==
    IF reqs.ok > 0 THEN "fulfilled"
    ELSE IF reqs.failed > 0 THEN "rejected"
    ELSE "pending"

\* Promise.all over the traffic requests, which are identical and so kept
\* as the counts of those pending, fulfilled and rejected: it rejects with
\* the first rejection and fulfils once every request has fulfilled.
PromiseAll(reqs) ==
    IF reqs.failed > 0 THEN "rejected"
    ELSE IF reqs.pending = 0 THEN "fulfilled"
    ELSE "pending"

\* one render of Dashboard with the metrics state m
Render(m) ==
    /\ stats' = computeStats(m)
    /\ methodData' = methodFrequency(m)
    /\ latencyData' = latencySeries(m)
    /\ recentRows' = recentLog(m).rows

\* dataService.getMetrics: the request leaves through the interceptor
NewFetch(inst, sim, ls) ==
    [id |-> issued + 1, inst |-> inst, sim |-> sim,
     authorization |-> requestInterceptor(ls)]

\* the logins, Test Traffic clicks and Refresh clicks of this page load
Budgeted == mounts + Len(sims) + refreshes

loginVars == <<loginLoading, loginError, loginPending>>
dashVars == <<dashInst, metrics, loading, simulating, lastUpdated, stats, methodData,
             latencyData, recentRows>>
histVars == <<data, shownId, newestId>>
appVars == <<token, userEmail, initializing>>

\* no Dashboard is mounted: its state variables hold no component state
NoDashboard ==
    /\ dashInst' = 0
    /\ metrics' = <<>>
    /\ loading' = FALSE
    /\ simulating' = FALSE
    /\ lastUpdated' = Null
    /\ Render(<<>>)
    /\ data' = <<>>
    /\ shownId' = 0
    /\ newestId' = 0

\* Dashboard mounts: useState initial values, then the mount effect's fetchData
MountDashboard(ls) ==
    /\ dashInst' = mounts + 1
    /\ mounts' = mounts + 1
    /\ metrics' = <<>>
    /\ loading' = TRUE
    /\ simulating' = FALSE
    /\ lastUpdated' = Null
    /\ Render(<<>>)
    /\ fetches' = fetches \cup {NewFetch(mounts + 1, 0, ls)}
    /\ issued' = issued + 1
    /\ data' = <<>>
    /\ shownId' = 0
    /\ newestId' = 0

\* the page as the browser has just loaded it, before any effect ran
FreshPage(ls) ==
    /\ localStorage = ls
    /\ token = Null
    /\ userEmail = ""
    /\ initializing = TRUE
    /\ loginLoading = FALSE
    /\ loginError = Null
    /\ loginPending = FALSE
    /\ dashInst = 0
    /\ metrics = <<>>
    /\ loading = FALSE
    /\ simulating = FALSE
    /\ lastUpdated = Null
    /\ stats = computeStats(<<>>)
    /\ methodData = methodFrequency(<<>>)
    /\ latencyData = latencySeries(<<>>)
    /\ recentRows = recentLog(<<>>).rows
    /\ fetches = {}
    /\ sims = <<>>
    /\ mounts = 0
    /\ issued = 0
    /\ refreshes = 0
    /\ data = <<>>
    /\ shownId = 0
    /\ newestId = 0

Init == FreshPage([token |-> Null, email |-> Null])

\* the user reloads the page: storage survives, everything in memory and
\* everything in flight is gone
Reload ==
    /\ ~ FreshPage(localStorage)
    /\ token' = Null
    /\ userEmail' = ""
    /\ initializing' = TRUE
    /\ loginLoading' = FALSE
    /\ loginError' = Null
    /\ loginPending' = FALSE
    /\ NoDashboard
    /\ fetches' = {}
    /\ sims' = <<>>
    /\ mounts' = 0
    /\ issued' = 0
    /\ refreshes' = 0
    /\ UNCHANGED localStorage

\* App's mount effect
AppStart ==
    /\ initializing
    /\ initializing' = FALSE
    /\ LET session == currentSession(localStorage)
       IN  IF session.found
           THEN /\ token' = session.token
                /\ userEmail' = session.email
                /\ MountDashboard(localStorage)
           ELSE UNCHANGED <<token, userEmail, dashVars, histVars, fetches, mounts, issued>>
    /\ UNCHANGED <<localStorage, loginVars, sims, refreshes>>

\* Login.handleSubmit up to its await
LoginSubmit ==
    /\ ~ initializing
    /\ token = Null
    /\ ~ loginLoading
    /\ Budgeted < MaxRequests
    /\ loginLoading' = TRUE
    /\ loginError' = Null
    /\ loginPending' = TRUE
    /\ UNCHANGED <<localStorage, appVars, dashVars, histVars, fetches, sims, mounts,
                   issued, refreshes>>

Tokens == {"t1", "t2"}
Emails == {"admin@delibery.com", ""}

\* what POST /login can come back with: a body, or an exception with or
\* without a server-supplied erro
LoginOutcomes ==
    {[kind |-> "body", ok |-> o, token |-> t, email |-> e, erro |-> Null] :
        o \in BOOLEAN, t \in Tokens \cup {""}, e \in Emails}
    \cup {[kind |-> "throw", ok |-> FALSE, token |-> "", email |-> "", erro |-> m] :
        m \in {Null, "Credenciais invalidas"}}

\* Login.handleSubmit from its await on, with App.handleLoginSuccess
LoginSettle(outcome) ==
    /\ loginPending
    /\ IF outcome.kind = "body" /\ loginAccepted(outcome)
       THEN /\ localStorage' = [token |-> outcome.token, email |-> outcome.email]
            /\ token' = localStorage'.token
            /\ userEmail' = outcome.email
            /\ loginLoading' = FALSE
            /\ loginError' = Null
            /\ loginPending' = FALSE
            /\ MountDashboard(localStorage')
            /\ UNCHANGED <<initializing, sims, refreshes>>
       ELSE /\ loginError' = IF outcome.kind = "body" THEN AuthFailedMsg
                             ELSE loginErrorMessage(outcome.erro)
            /\ loginLoading' = FALSE
            /\ loginPending' = FALSE
            /\ UNCHANGED <<localStorage, appVars, dashVars, histVars, fetches, sims,
                           mounts, issued, refreshes>>

\* App.handleLogout; requests in flight and armed timers are not cancelled
Logout ==
    /\ dashInst # 0
    /\ localStorage' = logout(localStorage)
    /\ token' = Null
    /\ userEmail' = ""
    /\ NoDashboard
    /\ UNCHANGED <<initializing, loginVars, fetches, sims, mounts, issued, refreshes>>

\* the Refresh button: fetchData up to its await
Refresh ==
    /\ dashInst # 0
    /\ ~ loading
    /\ Budgeted < MaxRequests
    /\ loading' = TRUE
    /\ fetches' = fetches \cup {NewFetch(dashInst, 0, localStorage)}
    /\ issued' = issued + 1
    /\ refreshes' = refreshes + 1
    /\ UNCHANGED <<localStorage, appVars, loginVars, dashInst, metrics, simulating,
                   lastUpdated, stats, methodData, latencyData, recentRows, histVars, sims, mounts>>

\* fetchData from its await on, the response in hand
FetchDataSuccess(f, response) ==
    /\ f \in fetches
    /\ f.inst = dashInst
    /\ fetches' = fetches \ {f}
    /\ LET stored == setMetrics(metrics, toOrderedSequence(response))
       IN  /\ metrics' = recentLog(stored).array
           /\ Render(stored)
    /\ lastUpdated' = "date"
    /\ loading' = FALSE
    /\ data' = response
    /\ shownId' = f.id
    /\ newestId' = IF f.id > newestId THEN f.id ELSE newestId
    /\ UNCHANGED <<localStorage, appVars, loginVars, dashInst, simulating, sims, mounts,
                   issued, refreshes>>

\* fetchData from its await on, getMetrics having thrown
FetchDataFailure(f) ==
    /\ f \in fetches
    /\ f.inst = dashInst
    /\ fetches' = fetches \ {f}
    /\ LET kept == fetchCatch(metrics)
       IN  /\ metrics' = recentLog(kept).array
           /\ Render(kept)
    /\ loading' = FALSE
    /\ UNCHANGED <<localStorage, appVars, loginVars, dashInst, simulating, lastUpdated,
                   histVars, sims, mounts, issued, refreshes>>

\* a request of a Dashboard that has unmounted settles: its state setters
\* act on no mounted component
FetchSettleUnmounted(f) ==
    /\ f \in fetches
    /\ f.inst # dashInst
    /\ fetches' = fetches \ {f}
    /\ UNCHANGED <<localStorage, appVars, loginVars, dashVars, histVars, sims, mounts,
                   issued, refreshes>>

\* the Test Traffic button: handleSimulateTraffic up to its await
SimulateTraffic ==
    /\ dashInst # 0
    /\ ~ simulating
    /\ Budgeted < MaxRequests
    /\ simulating' = TRUE
    /\ sims' = Append(sims, [inst |-> dashInst,
                             authorization |-> requestInterceptor(localStorage),
                             reqs |-> [pending |-> TrafficRequests, ok |-> 0, failed |-> 0],
                             stage |-> "await"])
    /\ UNCHANGED <<localStorage, appVars, loginVars, dashInst, metrics, loading,
                   lastUpdated, stats, methodData, latencyData, recentRows, histVars, fetches, mounts, issued,
                   refreshes>>

\* one GET /pedidos of call s settles; when that settles Promise.all the
\* handler goes on: it arms the timer, or its catch block runs
PedidosSettle(s, outcome) ==
    /\ s \in DOMAIN sims
    /\ sims[s].reqs.pending > 0
    /\ LET reqs == [sims[s].reqs EXCEPT !.pending = @ - 1, ![outcome] = @ + 1]
           all == PromiseAll(reqs)
           stage == IF sims[s].stage # "await" THEN sims[s].stage
                    ELSE IF all = "fulfilled" THEN "timer"
                    ELSE IF all = "rejected" THEN "failed"
                    ELSE "await"
       IN  /\ sims' = [sims EXCEPT ![s].reqs = reqs, ![s].stage = stage]
           /\ simulating' = IF sims[s].stage = "await" /\ stage = "failed"
                               /\ sims[s].inst = dashInst
                            THEN FALSE ELSE simulating
    /\ UNCHANGED <<localStorage, appVars, loginVars, dashInst, metrics, loading,
                   lastUpdated, stats, methodData, latencyData, recentRows, histVars, fetches, mounts, issued,
                   refreshes>>

\* the setTimeout callback of call s: fetchData up to its await, then
\* setSimulating(false)
TimerFire(s) ==
    /\ s \in DOMAIN sims
    /\ sims[s].stage = "timer"
    /\ sims' = [sims EXCEPT ![s].stage = "done"]
    /\ fetches' = fetches \cup {NewFetch(sims[s].inst, s, localStorage)}
    /\ issued' = issued + 1
    /\ loading' = IF sims[s].inst = dashInst THEN TRUE ELSE loading
    /\ simulating' = IF sims[s].inst = dashInst THEN FALSE ELSE simulating
    /\ UNCHANGED <<localStorage, appVars, loginVars, dashInst, metrics, lastUpdated,
                   stats, methodData, latencyData, recentRows, histVars, mounts,
                   refreshes>>

\* the MetricsResponses the server answers with in Spec
RecentRecord == [method |-> "GET", responseTimeMs |-> 2, statusCode |-> 200, timestampMs |-> 2]
OlderRecord == [method |-> "POST", statusCode |-> 500, timestampMs |-> 1]
SessionResponses == {<<>>, <<RecentRecord>>, <<RecentRecord, OlderRecord>>}

Next ==
    \/ Reload
    \/ AppStart
    \/ LoginSubmit
    \/ \E outcome \in LoginOutcomes : LoginSettle(outcome)
    \/ Logout
    \/ Refresh
    \/ \E f \in fetches, response \in SessionResponses : FetchDataSuccess(f, response)
    \/ \E f \in fetches : FetchDataFailure(f)
    \/ \E f \in fetches : FetchSettleUnmounted(f)
    \/ SimulateTraffic
    \/ \E s \in DOMAIN sims, outcome \in {"ok", "failed"} : PedidosSettle(s, outcome)
    \/ \E s \in DOMAIN sims : TimerFire(s)

Spec == Init /\ [][Next]_vars

\* every traffic request settles, and an armed timer fires
Fairness ==
    \A s \in 1..MaxRequests :
        /\ WF_vars(\E outcome \in {"ok", "failed"} : PedidosSettle(s, outcome))
        /\ WF_vars(TimerFire(s))

LiveSpec == Spec /\ Fairness

-----------------------------------------------------------------------------
(* AggSpec: one dashboard fetch, from the response to the derived views    *)

\* f @@ g for records with disjoint fields
Join(f, g) == [x \in DOMAIN f \cup DOMAIN g |-> IF x \in DOMAIN f THEN f[x] ELSE g[x]]

SortRecords ==
    {Join([endpoint |-> e], t) : e \in {"/pedidos", "/metricas"},
                                 t \in {<<>>} \cup {[timestampMs |-> v] : v \in 0..2}}

StatsRecords ==
    {Join(Join([timestampMs |-> 1], l), c) :
        l \in {<<>>} \cup {[responseTimeMs |-> v] : v \in 0..2},
        c \in {<<>>} \cup {[statusCode |-> v] : v \in {399, 400, 500}}}

MethodRecords ==
    {Join([timestampMs |-> 1], m) :
        m \in {<<>>} \cup {[method |-> v] : v \in {"", "GET", "POST", "UNKNOWN"}}}

SeqsUpTo(S, n) == UNION {[1..k -> S] : k \in 0..n}

\* the worked examples: latencies 100, 200, 300; ten records of which three
\* have a status of 400 or more; methods GET, GET, POST and a missing one
LatencyExample == [i \in 1..3 |-> [timestampMs |-> i, responseTimeMs |-> 100 * i]]
ErrorRateExample ==
    [i \in 1..10 |-> [timestampMs |-> i, statusCode |-> IF i <= 3 THEN 500 ELSE 200,
                      responseTimeMs |-> 1]]
MethodExample ==
    <<[timestampMs |-> 1, method |-> "GET"], [timestampMs |-> 1, method |-> "GET"],
      [timestampMs |-> 1, method |-> "POST"], [timestampMs |-> 1]>>

\* long responses around the windows of the chart and of the table: n
\* records in time order, every seventh without a latency
WindowExample(n) ==
    [i \in 1..n |-> IF i % 7 = 0 THEN [timestampMs |-> 1000 * i]
                    ELSE [timestampMs |-> 1000 * i, responseTimeMs |-> i]]

WindowExamples == {WindowExample(n) : n \in {9, 10, 11, 15, 29, 30, 31, 45}}

MetricsResponses ==
    SeqsUpTo(SortRecords, MaxLen) \cup SeqsUpTo(StatsRecords, MaxLen)
        \cup SeqsUpTo(MethodRecords, MaxLen)
        \cup {LatencyExample, ErrorRateExample, MethodExample}
        \cup WindowExamples

\* a page that restored its session: the Dashboard has mounted and its first
\* getMetrics is in flight
AggInit ==
    /\ localStorage = [token |-> "t1", email |-> "admin@delibery.com"]
    /\ token = "t1"
    /\ userEmail = "admin@delibery.com"
    /\ initializing = FALSE
    /\ loginLoading = FALSE
    /\ loginError = Null
    /\ loginPending = FALSE
    /\ dashInst = 1
    /\ metrics = <<>>
    /\ loading = TRUE
    /\ simulating = FALSE
    /\ lastUpdated = Null
    /\ stats = computeStats(<<>>)
    /\ methodData = methodFrequency(<<>>)
    /\ latencyData = latencySeries(<<>>)
    /\ recentRows = recentLog(<<>>).rows
    /\ fetches = {[id |-> 1, inst |-> 1, sim |-> 0,
                   authorization |-> requestInterceptor(localStorage)]}
    /\ sims = <<>>
    /\ mounts = 1
    /\ issued = 1
    /\ refreshes = 0
    /\ data = <<>>
    /\ shownId = 0
    /\ newestId = 0

AggNext == \E f \in fetches, response \in MetricsResponses : FetchDataSuccess(f, response)

AggSpec == AggInit /\ [][AggNext]_vars

-----------------------------------------------------------------------------
(* Properties                                                              *)

\* POST /login came back with ok = false, or threw
LoginFailed(outcome) == outcome.kind = "throw" \/ ~ outcome.ok

\* C1: a login attempt that comes back with ok = false, or that throws,
\* writes neither stored key and leaves the in-memory session (token, email,
\* the screen shown) and everything else as it was; only Login's error
\* message and loading flag (and the request, no longer in flight) change.
C1_FailedLoginKeepsSession ==
    [][\A outcome \in LoginOutcomes :
          (LoginFailed(outcome) /\ LoginSettle(outcome)) =>
              /\ localStorage' = localStorage
              /\ token' = token
              /\ userEmail' = userEmail
              /\ initializing' = initializing
              /\ dashInst' = dashInst
              /\ loginError' # Null
              /\ ~ loginLoading'
              /\ UNCHANGED <<metrics, loading, simulating, lastUpdated, stats,
                             methodData, latencyData, recentRows, fetches, sims>>]_vars

\* a failed attempt has just been handled on a login screen shown although a
\* token is stored (the stored email is empty, so no session was restored)
C1_Witness ==
    /\ loginError # Null
    /\ ~ loginPending
    /\ Truthy(localStorage.token)
    /\ token = Null
    /\ ~ initializing

\* C2: logout removes both stored keys and nulls the in-memory token, so
\* that the session check of the next application start finds no session
\* and shows the login screen; nothing but the user's next successful login
\* stores a token again.
C2_LogoutClearsSession ==
    [][/\ Logout =>
            /\ localStorage'.token = Null
            /\ localStorage'.email = Null
            /\ token' = Null
            /\ ~ currentSession(localStorage').found
            /\ ~ loginPending'
       /\ (AppStart /\ localStorage.token = Null /\ localStorage.email = Null) =>
            /\ token' = Null
            /\ dashInst' = 0
            /\ ~ initializing'
       /\ (localStorage' # localStorage /\ ~ Logout) => loginPending
      ]_vars

\* logged out with the old Dashboard's requests still in flight, after a
\* traffic simulation
C2_Witness ==
    /\ ~ initializing
    /\ token = Null
    /\ localStorage = [token |-> Null, email |-> Null]
    /\ fetches # {}
    /\ sims # <<>>

\* C3: the re-fetch of a simulate-traffic call is issued only by its timer,
\* and the timer is armed only in the step in which the last of its three
\* traffic requests settles: the re-fetch never begins before all three have
\* settled and the delay that started then has elapsed.
C3_RefetchAfterSettleAndDelay ==
    [][/\ \A f \in fetches' \ fetches :
            f.sim # 0 =>
                /\ f.sim \in DOMAIN sims
                /\ sims[f.sim].reqs.pending = 0
                /\ sims[f.sim].stage = "timer"
                /\ sims'[f.sim].stage = "done"
       /\ \A s \in DOMAIN sims' :
            (sims'[s].stage = "timer" /\ (s \notin DOMAIN sims \/ sims[s].stage # "timer")) =>
                /\ s \in DOMAIN sims
                /\ sims[s].reqs.pending = 1
                /\ sims'[s].reqs.pending = 0
      ]_vars

\* the timed re-fetch of a call is in flight
C3_Witness ==
    \E f \in fetches :
        /\ f.sim # 0
        /\ sims[f.sim].stage = "done"
        /\ sims[f.sim].reqs.pending = 0

\* C4 as stated: once the three traffic requests of a call have settled,
\* succeeded or failed, its timed re-fetch is armed or has begun.
C4_RefetchAfterAnySettlement ==
    \A s \in DOMAIN sims :
        sims[s].reqs.pending = 0 => sims[s].stage \in {"timer", "done"}

\* C4, amended: a call whose three traffic requests all succeed is
\* eventually followed by its timed re-fetch (or the page is reloaded first);
\* a call with a failed traffic request never arms the timer nor re-fetches.
C4_RefetchAfterSuccess ==
    /\ \A s \in 1..MaxRequests :
          (s \in DOMAIN sims /\ sims[s].reqs.ok = TrafficRequests)
              ~> (s \notin DOMAIN sims \/ sims[s].stage = "done")
    /\ [](\A s \in DOMAIN sims :
             sims[s].reqs.failed > 0 => sims[s].stage \in {"await", "failed"})

\* a call with three successes has re-fetched
C4_Witness ==
    \E s \in DOMAIN sims :
        /\ sims[s].reqs.ok = TrafficRequests
        /\ sims[s].stage = "done"

\* C5 as stated: after a failed metrics fetch the dashboard shows the empty
\* state and the loading flag is clear.
C5_FailureShowsEmptyState ==
    [][\A f \in fetches :
          FetchDataFailure(f) =>
              /\ metrics' = <<>>
              /\ emptyStateRow(metrics')
              /\ ~ loading'
              /\ dashInst' = dashInst]_vars

\* C5, amended: a failed metrics fetch leaves the displayed sequence as it
\* was, so the empty state shows afterwards exactly if it showed before; the
\* Dashboard stays mounted and the loading flag is clear.
C5_FailureKeepsMetrics ==
    [][\A f \in fetches :
          FetchDataFailure(f) =>
              /\ metrics' = metrics
              /\ emptyStateRow(metrics') = emptyStateRow(metrics)
              /\ stats' = stats
              /\ ~ loading'
              /\ dashInst' = dashInst]_vars

\* the first fetch of the only Dashboard succeeded with records, the user
\* clicked Refresh, and that second fetch failed: the records still show
C5_Witness ==
    /\ dashInst = 1
    /\ mounts = 1
    /\ refreshes = 1
    /\ sims = <<>>
    /\ issued = 2
    /\ fetches = {}
    /\ shownId = 1
    /\ metrics # <<>>
    /\ ~ emptyStateRow(metrics)
    /\ ~ loading

\* C6: the displayed sequence is the sorted content of the successful
\* response the mounted Dashboard handled last, whichever request it answers
\* (the empty sequence before the first one).
C6_LastResponseWins ==
    /\ metrics = toOrderedSequence(data)
    /\ Len(metrics) = Len(data)

\* the response shown answers a request issued before one already answered
C6_Witness ==
    /\ shownId # 0
    /\ shownId < newestId
    /\ metrics # <<>>

\* C7: every request to /metricas or /pedidos carries Authorization: Bearer
\* <token>, the token stored when the request is issued.
C7_EveryRequestAuthorized ==
    [][/\ \A f \in fetches' \ fetches :
            /\ Truthy(localStorage'.token)
            /\ f.authorization = <<"Bearer", localStorage'.token>>
       /\ \A s \in DOMAIN sims' \ DOMAIN sims :
            /\ Truthy(localStorage'.token)
            /\ sims'[s].authorization = <<"Bearer", localStorage'.token>>
      ]_vars

\* reference readings of a record's fields
TimestampOf(r) == IF "timestampMs" \in DOMAIN r THEN r.timestampMs ELSE 0
LatencyOf(r) == IF "responseTimeMs" \in DOMAIN r THEN r.responseTimeMs ELSE 0
LabelOf(r) == IF "method" \in DOMAIN r /\ r.method # "" THEN r.method ELSE "UNKNOWN"

Occurrences(s, r) == Cardinality({i \in DOMAIN s : s[i] = r})

\* C8: the sequence a successful fetch stores is a permutation of the
\* response's values, non-decreasing by timestampMs with a missing
\* timestamp read as 0.
C8_SortedPermutation ==
    /\ Len(metrics) = Len(data)
    /\ \A i \in DOMAIN data : Occurrences(metrics, data[i]) = Occurrences(data, data[i])
    /\ \A i, j \in DOMAIN metrics :
          i < j => TimestampOf(metrics[i]) <= TimestampOf(metrics[j])

\* a response arrived out of order, with a record lacking its timestamp
\* after a later one and with a record occurring twice
C8_Witness ==
    /\ shownId # 0
    /\ metrics # data
    /\ \E i, j \in DOMAIN data :
          /\ i < j
          /\ "timestampMs" \notin DOMAIN data[j]
          /\ TimestampOf(data[i]) > 0
    /\ \E i, j \in DOMAIN data : i # j /\ data[i] = data[j]

RECURSIVE SumLatency(_, _)
SumLatency(s, n) == IF n = 0 THEN 0 ELSE SumLatency(s, n - 1) + LatencyOf(s[n])

\* the printed decimal is num/den rounded to `digits` fraction digits
Prints(decimal, num, den, digits) ==
    LET scaled == decimal.whole * Pow10(digits) + decimal.frac
        diff == scaled * den - num * Pow10(digits)
    IN  /\ decimal.digits = digits
        /\ decimal.frac \in 0..(Pow10(digits) - 1)
        /\ decimal.whole >= 0
        /\ 2 * diff <= den
        /\ 2 * diff > - den

\* the reference result of computeStats for the displayed sequence
C9_Reference ==
    IF metrics = <<>>
    THEN stats = [avgLatency |-> [whole |-> 0, frac |-> 0, digits |-> 2],
                  totalRequests |-> 0,
                  errorRate |-> [whole |-> 0, frac |-> 0, digits |-> 1],
                  peakLatency |-> [whole |-> 0, frac |-> 0, digits |-> 2]]
    ELSE LET n == Len(metrics)
             errors == Cardinality({i \in DOMAIN metrics :
                                       /\ "statusCode" \in DOMAIN metrics[i]
                                       /\ metrics[i].statusCode >= 400})
         IN  /\ stats.totalRequests = n
             /\ Prints(stats.avgLatency, SumLatency(metrics, n), n, 2)
             /\ Prints(stats.errorRate, 100 * errors, n, 1)
             /\ stats.peakLatency.digits = 2
             /\ stats.peakLatency.frac = 0
             /\ \E i \in DOMAIN metrics : LatencyOf(metrics[i]) = stats.peakLatency.whole
             /\ \A i \in DOMAIN metrics : LatencyOf(metrics[i]) <= stats.peakLatency.whole

\* C9: stats is the reference result for the displayed sequence: the zero
\* defaults for the empty sequence; otherwise the length, the mean latency,
\* the percentage of records with statusCode >= 400 and the largest latency,
\* a missing latency counted as 0.
C9_StatsMatchReference ==
    /\ (shownId # 0 /\ data = LatencyExample) =>
          /\ stats.avgLatency = [whole |-> 200, frac |-> 0, digits |-> 2]
          /\ stats.peakLatency = [whole |-> 300, frac |-> 0, digits |-> 2]
    /\ (shownId # 0 /\ data = ErrorRateExample) =>
          /\ stats.errorRate = [whole |-> 30, frac |-> 0, digits |-> 1]
          /\ stats.totalRequests = 10
    /\ C9_Reference

\* three records, one an error with status exactly 400, one without a
\* latency: a third of them are errors and the mean does not print exactly
C9_Witness ==
    /\ shownId # 0
    /\ Len(metrics) = 3
    /\ \E i \in DOMAIN metrics : "responseTimeMs" \notin DOMAIN metrics[i]
    /\ Cardinality({i \in DOMAIN metrics :
                       "statusCode" \in DOMAIN metrics[i] /\ metrics[i].statusCode >= 400}) = 1
    /\ \E i \in DOMAIN metrics :
          "statusCode" \in DOMAIN metrics[i] /\ metrics[i].statusCode = 400
    /\ stats.errorRate = [whole |-> 33, frac |-> 3, digits |-> 1]
    /\ stats.avgLatency = [whole |-> 0, frac |-> 67, digits |-> 2]
    /\ stats.peakLatency = [whole |-> 2, frac |-> 0, digits |-> 2]

FirstIndex(s, label) == CHOOSE i \in DOMAIN s :
    LabelOf(s[i]) = label /\ \A j \in 1..(i - 1) : LabelOf(s[j]) # label

\* C10: methodData has one entry per distinct method of the displayed
\* sequence, an absent or empty method counted under "UNKNOWN"; an entry's
\* value is the number of records of its method, so the values sum to the
\* length; the entries are in order of first occurrence.
C10_MethodFrequency ==
    LET labels == {LabelOf(metrics[i]) : i \in DOMAIN metrics}
    IN  /\ (shownId # 0 /\ data = MethodExample) =>
              methodData = <<[name |-> "GET", value |-> 2], [name |-> "POST", value |-> 1],
                             [name |-> "UNKNOWN", value |-> 1]>>
        /\ Len(methodData) = Cardinality(labels)
        /\ {methodData[k].name : k \in DOMAIN methodData} = labels
        /\ \A k \in DOMAIN methodData :
              methodData[k].value =
                  Cardinality({i \in DOMAIN metrics : LabelOf(metrics[i]) = methodData[k].name})
        /\ \A k, l \in DOMAIN methodData :
              k < l => FirstIndex(metrics, methodData[k].name)
                           < FirstIndex(metrics, methodData[l].name)

\* GET seen twice around a record with an empty method: GET comes first
\* with 2, then UNKNOWN with 1
C10_Witness ==
    /\ shownId # 0
    /\ Len(metrics) = 3
    /\ \E i \in DOMAIN metrics : "method" \in DOMAIN metrics[i] /\ metrics[i].method = ""
    /\ methodData = <<[name |-> "GET", value |-> 2], [name |-> "UNKNOWN", value |-> 1]>>

Min(a, b) == IF a < b THEN a ELSE b

\* C11: latencyData has min(n, 30) points for a displayed sequence of n
\* records; counting from 0, point i comes from the record at position
\* n - min(n, 30) + i, and carries the index i and that record's latency, a
\* missing latency as 0: the last 30 records in their order.
C11_LatencySeriesIsLastWindow ==
    LET n == Len(metrics)
        k == Min(n, 30)
    IN  /\ Len(latencyData) = k
        /\ \A i \in 0..(k - 1) :
              LET point == latencyData[i + 1]
                  record == metrics[n - k + i + 1]
              IN  /\ point.name = i
                  /\ point.ms.num = LatencyOf(record) * point.ms.den
                  /\ (point.time = <<>>) = (TimestampOf(record) = 0)
        /\ (shownId # 0 /\ Len(data) = 45) =>
              /\ Len(latencyData) = 30
              /\ latencyData[1].ms.num = 16 * latencyData[1].ms.den
              /\ latencyData[30].ms.num = 45 * latencyData[30].ms.den

\* a response of 45 records is shown: the chart starts at the sixteenth
C11_Witness ==
    /\ shownId # 0
    /\ Len(metrics) = 45
    /\ Len(latencyData) = 30
    /\ latencyData[1].name = 0
    /\ latencyData[1].time = <<0, 0, 16>>
    /\ latencyData[6].ms.num = 0

\* C12: the table shows min(n, 10) records of a displayed sequence of n
\* records: its first row is the last record, its i-th row the i-th from the
\* end; the displayed sequence itself is still what the fetch stored, in
\* ascending time order.
C12_RecentLogIsReversedTail ==
    LET n == Len(metrics)
        k == Min(n, 10)
    IN  /\ Len(recentRows) = k
        /\ \A i \in 1..k : recentRows[i] = metrics[n + 1 - i]
        /\ Len(metrics) = Len(data)
        /\ \A i, j \in DOMAIN metrics :
              i < j => TimestampOf(metrics[i]) <= TimestampOf(metrics[j])
        /\ (shownId # 0 /\ Len(data) = 15) =>
              /\ Len(recentRows) = 10
              /\ TimestampOf(recentRows[1]) = 15000
              /\ TimestampOf(recentRows[10]) = 6000

\* a response of 15 records is shown: ten rows, the latest record first
C12_Witness ==
    /\ shownId # 0
    /\ Len(metrics) = 15
    /\ Len(recentRows) = 10
    /\ recentRows[1] = metrics[15]
    /\ recentRows[10] = metrics[6]
    /\ TimestampOf(metrics[1]) < TimestampOf(metrics[15])

\* the getMetrics requests of the mounted Dashboard that are in flight
InFlight == {f \in fetches : f.inst = dashInst}

\* C13: while a Dashboard is mounted, its loading flag (which disables the
\* Refresh button) is true whenever one of its metrics fetches is in flight,
\* and false once none is.
C13_LoadingTracksFetches ==
    dashInst # 0 => (loading <=> InFlight # {})

\* the half of C13 that the code keeps: no fetch in flight, flag clear
C13_IdleMeansNotLoading ==
    (dashInst # 0 /\ InFlight = {}) => ~ loading

=============================================================================
